---------------------------- MODULE Spec2Model ----------------------------
(***************************************************************************)
(* Model of the no-OS core utilities: the ring buffer of                   *)
(* util/circular_buffer.c and the doubly linked list, its iterators and    *)
(* its adapters of util/list.c.                                            *)
(*                                                                         *)
(* Pointers into the ring buffer's backing region are offsets from buff.   *)
(* uint32_t and int32_t are kept as WordBits-bit integers so that the      *)
(* wrap-around of the C arithmetic is part of the model.                   *)
(***************************************************************************)
EXTENDS Integers, Sequences, FiniteSets, TLC

(***************************************************************************)
(* Bounds of the model.                                                    *)
(***************************************************************************)
\* bits of the model's uint32_t / int32_t
WordBits == 4
\* largest nb_elements a caller passes to circular_buffer_init
MaxElems == 3
\* largest element_size a caller passes to circular_buffer_init
MaxElemSize == 2
\* writes (reads) are issued while fewer than MaxBytes bytes were accepted (delivered)
MaxBytes == 5

\* nodes the allocator can hand out at one time
MaxNodes == 3
\* payloads are the pointer values 0 (NULL) .. MaxData
MaxData == 2
\* iterators a caller holds at one time
MaxIters == 1
\* payloads stored through the list API are 0 (a NULL payload) .. MaxListData
MaxListData == 1

Modulus == 2 ^ WordBits

\* value of a C expression stored in a uint32_t
U32(x) == x % Modulus

\* value of a C expression stored in an int32_t (two's complement)
I32(x) == IF x % Modulus >= Modulus \div 2 THEN (x % Modulus) - Modulus ELSE x % Modulus

NULL == 0

VARIABLES
    cb,         \* struct circular_buffer; cb.live is FALSE while the handle is NULL
    cb_call,    \* the last ring buffer call: its name, argument, result and data
    accepted,   \* number of bytes handed over by successful writes so far
    delivered,  \* the bytes handed out by successful reads so far, in order
    heap,       \* the struct list_elem cells: address 0 (NULL) and the nodes 1..MaxNodes
    list,       \* struct list_desc; list.live is FALSE while the handle is NULL
    iters,      \* the struct list_iterator objects created by iterator_init
    l_call,     \* the last list call: its name, arguments, result and returned payload
    pending,    \* payloads pushed through the adapter and not yet popped, in push order
    undef       \* undefined behaviour so far: "none", or a call dereferenced an
                \* invalid pointer and the program "trapped" or "continued"

cbvars == <<cb, cb_call, accepted, delivered>>

lvars == <<heap, list, iters, l_call, pending, undef>>

vars == <<cb, cb_call, accepted, delivered, heap, list, iters, l_call, pending, undef>>

(***************************************************************************)
(* Ring buffer: util/circular_buffer.c                                     *)
(***************************************************************************)

NoBuffer ==
    [live |-> FALSE, size |-> 0, nb_elem |-> 0, elem_size |-> 0,
     buff |-> << >>, read_ptr |-> 0, write_ptr |-> 0, full |-> FALSE]

NoCall == [op |-> "none", n |-> 0, ret |-> "SUCCESS", data |-> << >>, size |-> 0]

\* memcpy into the backing region: n bytes of src, taken from its index from + 1
\* on, stored at offset dst
MemcpyIn(buff, dst, src, from, n) ==
    [i \in DOMAIN buff |->
        IF dst < i /\ i <= dst + n THEN src[from + (i - dst)] ELSE buff[i]]

\* memcpy out of the backing region: the n bytes at offset src
MemcpyOut(buff, src, n) == [i \in 1..n |-> buff[src + i]]

ptr_to_offset(desc, ptr) == U32(ptr)

elements_to_size(desc, elems) == U32(elems * desc.elem_size)

size_to_elements(desc, size) == size \div desc.elem_size

get_unread_size(desc) ==
    IF desc.full
    THEN desc.size
    ELSE IF desc.write_ptr < desc.read_ptr
         THEN U32(U32(desc.size - ptr_to_offset(desc, desc.read_ptr)) + desc.write_ptr)
         ELSE U32(desc.write_ptr - desc.read_ptr)

\* the descriptor circular_buffer_init builds; the backing region is zeroed
InitBuffer(nb_elements, element_size) ==
    [live |-> TRUE,
     size |-> U32(nb_elements * element_size),
     nb_elem |-> nb_elements,
     elem_size |-> element_size,
     buff |-> [i \in 1..(nb_elements * element_size) |-> 0],
     read_ptr |-> 0, write_ptr |-> 0, full |-> FALSE]

\* whether circular_buffer_init accepts its arguments
InitAccepts(nb_elements, element_size) ==
    LET size == U32(nb_elements * element_size)
    IN /\ element_size # 0
       /\ nb_elements # 0
       /\ ~(size < nb_elements \/ size < element_size)

\* whether the product does not fit the word and the check at lines 90-91 lets
\* it pass all the same
WrapsUnnoticed(nb_elements, element_size) ==
    /\ nb_elements * element_size >= Modulus
    /\ InitAccepts(nb_elements, element_size)

\* the arguments callers pass to circular_buffer_init: every small pair, zero
\* included, one pair whose product does not fit the word and wraps to 0, and
\* the least pair <<k, k>> whose product does not fit the word and wraps to a
\* size that is less than neither argument (0x10001 squared, for 32 bits)
InitArgs ==
    {<<n, e>> : n \in 0..MaxElems, e \in 0..MaxElemSize}
        \cup {<<Modulus \div 2, 2>>}
        \cup {<<k, k>> : k \in {j \in 1..(Modulus - 1) :
                                /\ WrapsUnnoticed(j, j)
                                /\ \A i \in 1..(j - 1) : ~WrapsUnnoticed(i, i)}}

circular_buffer_init(nb_elements, element_size, alloc_ok) ==
    /\ ~cb.live
    /\ LET ok == InitAccepts(nb_elements, element_size) /\ alloc_ok
       IN /\ cb' = IF ok THEN InitBuffer(nb_elements, element_size) ELSE cb
          /\ cb_call' = [op |-> "init", n |-> nb_elements,
                         ret |-> IF ok THEN "SUCCESS" ELSE "FAILURE",
                         data |-> << >>, size |-> 0]
    /\ UNCHANGED <<accepted, delivered>>
    /\ UNCHANGED lvars

circular_buffer_remove ==
    /\ cb.live
    /\ cb' = NoBuffer
    /\ cb_call' = [op |-> "remove", n |-> 0, ret |-> "SUCCESS",
                   data |-> << >>, size |-> 0]
    /\ accepted' = 0
    /\ delivered' = << >>
    /\ UNCHANGED lvars

circular_buffer_size ==
    /\ cb_call' = [op |-> "size", n |-> 0,
                   ret |-> IF cb.live THEN "SUCCESS" ELSE "FAILURE",
                   data |-> << >>,
                   size |-> IF cb.live
                            THEN size_to_elements(cb, get_unread_size(cb))
                            ELSE 0]
    /\ UNCHANGED <<cb, accepted, delivered>>
    /\ UNCHANGED lvars

\* whether circular_buffer_write refuses the call
WriteRefused(desc, nb_elements) ==
    \/ ~desc.live
    \/ desc.full
    \/ elements_to_size(desc, nb_elements) > U32(desc.size - get_unread_size(desc))

\* the descriptor after the copy of circular_buffer_write; data is the caller's buffer
WriteCopy(desc, data, nb_elements) ==
    LET to_write_size == elements_to_size(desc, nb_elements)
        size_to_end == U32(desc.size - ptr_to_offset(desc, desc.write_ptr))
        copied ==
            IF to_write_size > size_to_end
            THEN LET rest == to_write_size - size_to_end
                 IN [desc EXCEPT
                        !.buff = MemcpyIn(
                                    MemcpyIn(desc.buff, desc.write_ptr, data, 0, size_to_end),
                                    0, data, size_to_end, rest),
                        !.write_ptr = rest]
            ELSE [desc EXCEPT
                    !.buff = MemcpyIn(desc.buff, desc.write_ptr, data, 0, to_write_size),
                    !.write_ptr = desc.write_ptr + to_write_size]
    IN IF copied.write_ptr = copied.read_ptr
       THEN [copied EXCEPT !.full = TRUE]
       ELSE copied

\* the caller's buffer of a write of nb_elements elements: its bytes are numbered
\* on from the bytes accepted so far, so every byte ever written is distinct
CallerData(desc, nb_elements) ==
    [i \in 1..(nb_elements * desc.elem_size) |-> accepted + i]

circular_buffer_write(nb_elements) ==
    /\ accepted < MaxBytes
    /\ LET data == IF cb.live THEN CallerData(cb, nb_elements) ELSE << >>
           refused == WriteRefused(cb, nb_elements)
       IN /\ cb' = IF refused THEN cb ELSE WriteCopy(cb, data, nb_elements)
          /\ cb_call' = [op |-> "write", n |-> nb_elements,
                         ret |-> IF refused THEN "FAILURE" ELSE "SUCCESS",
                         data |-> data, size |-> 0]
          /\ accepted' = IF refused THEN accepted ELSE accepted + Len(data)
    /\ UNCHANGED delivered
    /\ UNCHANGED lvars

\* whether circular_buffer_read refuses the call
ReadRefused(desc, nb_elements) ==
    \/ ~desc.live
    \/ elements_to_size(desc, nb_elements) > get_unread_size(desc)

\* the bytes circular_buffer_read copies to the caller's buffer
ReadData(desc, nb_elements) ==
    LET to_read_size == elements_to_size(desc, nb_elements)
        size_to_end == U32(desc.size - ptr_to_offset(desc, desc.read_ptr))
    IN IF to_read_size > size_to_end
       THEN MemcpyOut(desc.buff, desc.read_ptr, size_to_end)
                \o MemcpyOut(desc.buff, 0, to_read_size - size_to_end)
       ELSE MemcpyOut(desc.buff, desc.read_ptr, to_read_size)

\* the descriptor after circular_buffer_read
ReadAdvance(desc, nb_elements) ==
    LET to_read_size == elements_to_size(desc, nb_elements)
        size_to_end == U32(desc.size - ptr_to_offset(desc, desc.read_ptr))
    IN [desc EXCEPT
            !.read_ptr = IF to_read_size > size_to_end
                         THEN to_read_size - size_to_end
                         ELSE desc.read_ptr + to_read_size,
            !.full = FALSE]

circular_buffer_read(nb_elements) ==
    /\ Len(delivered) < MaxBytes
    /\ LET refused == ReadRefused(cb, nb_elements)
           out == IF refused THEN << >> ELSE ReadData(cb, nb_elements)
       IN /\ cb' = IF refused THEN cb ELSE ReadAdvance(cb, nb_elements)
          /\ cb_call' = [op |-> "read", n |-> nb_elements,
                         ret |-> IF refused THEN "FAILURE" ELSE "SUCCESS",
                         data |-> out, size |-> 0]
          /\ delivered' = delivered \o out
    /\ UNCHANGED accepted
    /\ UNCHANGED lvars

\* the element counts callers pass to write and read: every count up to one more
\* than the capacity, and the counts whose byte size wraps to at most one element
ElemCounts ==
    (0..(cb.nb_elem + 1))
        \cup {n \in 0..(Modulus - 1) :
                /\ cb.live
                /\ n * cb.elem_size >= Modulus
                /\ U32(n * cb.elem_size) <= cb.elem_size}

CBIdle ==
    /\ cb = NoBuffer
    /\ cb_call = NoCall
    /\ accepted = 0
    /\ delivered = << >>

CBNext ==
    \/ \E a \in InitArgs, alloc_ok \in BOOLEAN :
            circular_buffer_init(a[1], a[2], alloc_ok)
    \/ circular_buffer_remove
    \/ circular_buffer_size
    \/ \E n \in ElemCounts : circular_buffer_write(n)
    \/ \E n \in ElemCounts : circular_buffer_read(n)

(***************************************************************************)
(* List: util/list.c                                                       *)
(*                                                                         *)
(* A pointer to a struct list_elem is a cell number: 0 is NULL, 1..MaxNodes*)
(* are the cells calloc can return.  A freed cell keeps its last contents  *)
(* until calloc hands it out again.  A call that dereferences NULL or a    *)
(* freed cell (ub) either traps or goes on with the memory as it is.       *)
(***************************************************************************)
NodeIds == 1..MaxNodes

Data == 0..MaxData

IterIds == 1..MaxIters

\* the embedded iterator list_desc.l_it, as an iterator reference
l_it == 0

NoElem == [alloc |-> FALSE, data |-> NULL, prev |-> NULL, next |-> NULL]

NoList ==
    [live |-> FALSE, first |-> NULL, last |-> NULL, nb_elements |-> 0,
     comparator |-> "default", nb_iterators |-> 0, l_it |-> NULL,
     adapter |-> "LIST_DEFAULT"]

NoIter == [live |-> FALSE, elem |-> NULL]

\* the record of a list call: its name, its arguments (payload arg, index or step
\* count idx, iterator it), its result and returned payload; for iterator_move
\* also the position it found the iterator at (from) and whether it takes back
\* the call before it, a successful iterator_move of the same iterator by the
\* opposite step count (undoes); for a call that allocates, whether calloc had
\* no memory to give (nomem); for iterator_insert its flag after
NoListCall ==
    [op |-> "none", ret |-> "SUCCESS", data |-> NULL, arg |-> NULL, idx |-> 0,
     it |-> l_it, from |-> NULL, undoes |-> FALSE, nomem |-> FALSE, after |-> FALSE]

\* the memory a list function works on, and what it leaves behind
Mem == [heap |-> heap, list |-> list, iters |-> iters]

Result(m, ret, data, ub) ==
    [heap |-> m.heap, list |-> m.list, iters |-> m.iters,
     ret |-> ret, data |-> data, ub |-> ub]

\* a pointer that may be dereferenced
Valid(h, p) == p # NULL /\ h[p].alloc

\* a non-NULL pointer to a freed cell
Dangling(h, p) == p # NULL /\ ~h[p].alloc

FreeCells == {n \in NodeIds : ~heap[n].alloc}

\* free(p)
free(h, p) == IF p = NULL THEN h ELSE [h EXCEPT ![p].alloc = FALSE]

default_comparator(data1, data2) == I32(data1 - data2)

\* a caller's comparator: payloads 2k and 2k+1 carry the same key k
user_comparator(data1, data2) ==
    IF data1 \div 2 < data2 \div 2 THEN -1
    ELSE IF data1 \div 2 = data2 \div 2 THEN 0 ELSE 1

comparator(l, data1, data2) ==
    IF l.comparator = "default"
    THEN default_comparator(data1, data2)
    ELSE user_comparator(data1, data2)

create_element(h, elem, data, prev, next) ==
    [h EXCEPT ![elem] = [alloc |-> TRUE, data |-> data, prev |-> prev, next |-> next]]

update_links(h, prev, elem, next) ==
    LET h1 == IF prev # NULL
              THEN [h EXCEPT ![prev].next = IF elem # NULL THEN elem ELSE next]
              ELSE h
        h2 == IF elem # NULL
              THEN [h1 EXCEPT ![elem].prev = prev, ![elem].next = next]
              ELSE h1
    IN IF next # NULL
       THEN [h2 EXCEPT ![next].prev = IF elem # NULL THEN elem ELSE prev]
       ELSE h2

update_desc(l, new_first, new_last) ==
    IF new_first = l.first
    THEN [l EXCEPT !.last = new_last,
                   !.first = IF new_first = NULL \/ new_last = NULL
                             THEN new_last ELSE l.first]
    ELSE [l EXCEPT !.first = new_first,
                   !.last = IF new_last = NULL \/ new_first = NULL
                            THEN new_first ELSE l.last]

set_adapter(type) ==
    CASE type = "LIST_PRIORITY_LIST" ->
            [push |-> "list_add_find", pop |-> "list_get_first",
             top_next |-> "list_read_first", back |-> "list_read_last",
             swap |-> "list_edit_first"]
      [] type = "LIST_QUEUE" ->
            [push |-> "list_add_last", pop |-> "list_get_first",
             top_next |-> "list_read_first", back |-> "list_read_last",
             swap |-> "list_edit_first"]
      [] OTHER ->
            [push |-> "list_add_last", pop |-> "list_get_last",
             top_next |-> "list_read_last", back |-> "list_read_first",
             swap |-> "list_edit_last"]

AdapterTypes == {"LIST_DEFAULT", "LIST_STACK", "LIST_QUEUE", "LIST_PRIORITY_LIST"}

Comparators == {"default", "user"}

\* the descriptor list_init builds
list_init(cmp, type) ==
    [live |-> TRUE, first |-> NULL, last |-> NULL, nb_elements |-> 0,
     comparator |-> cmp, nb_iterators |-> 0, l_it |-> NULL, adapter |-> type]

\* elem is what calloc returned: a free cell, or NULL
list_add_first(m, data, elem) ==
    LET prev == NULL
        next == m.list.first
    IN IF ~m.list.live \/ elem = NULL
       THEN Result(m, "FAILURE", NULL, FALSE)
       ELSE [heap |-> update_links(create_element(m.heap, elem, data, prev, next),
                                   prev, elem, next),
             list |-> [update_desc(m.list, elem, m.list.last)
                          EXCEPT !.nb_elements = U32(@ + 1)],
             iters |-> m.iters,
             ret |-> "SUCCESS", data |-> NULL,
             ub |-> Dangling(m.heap, next)]

\* list_add_last with the new element linked at the wrong end
Mut_list_add_last(m, data, elem) == list_add_first(m, data, elem)

list_add_last(m, data, elem) ==
    LET prev == m.list.last
        next == NULL
    IN IF ~m.list.live \/ elem = NULL
       THEN Result(m, "FAILURE", NULL, FALSE)
       ELSE [heap |-> update_links(create_element(m.heap, elem, data, prev, next),
                                   prev, elem, next),
             list |-> [update_desc(m.list, m.list.first, elem)
                          EXCEPT !.nb_elements = U32(@ + 1)],
             iters |-> m.iters,
             ret |-> "SUCCESS", data |-> NULL,
             ub |-> Dangling(m.heap, prev)]

\* the position of iterator it: the embedded l_it or a caller's iterator
ItElem(m, it) == IF it = l_it THEN m.list.l_it ELSE m.iters[it].elem

\* whether the iterator handle is non-NULL
ItLive(m, it) == it = l_it \/ m.iters[it].live

SetItElem(m, it, elem) ==
    IF it = l_it
    THEN [m EXCEPT !.list.l_it = elem]
    ELSE [m EXCEPT !.iters[it].elem = elem]

list_get_first(m) ==
    IF ~m.list.live \/ m.list.nb_elements = 0
    THEN Result(m, "FAILURE", NULL, FALSE)
    ELSE LET elem == m.list.first
             prev == m.heap[elem].prev
             next == m.heap[elem].next
             h == update_links(m.heap, prev, NULL, next)
         IN [heap |-> free(h, elem),
             list |-> [update_desc(m.list, next, m.list.last)
                          EXCEPT !.nb_elements = U32(@ - 1)],
             iters |-> m.iters,
             ret |-> "SUCCESS", data |-> h[elem].data,
             ub |-> \/ ~Valid(m.heap, elem)
                    \/ Dangling(m.heap, prev)
                    \/ Dangling(m.heap, next)]

\* list_get_last that unlinks the first element
Mut_list_get_last(m) == list_get_first(m)

list_get_last(m) ==
    IF ~m.list.live \/ m.list.nb_elements = 0
    THEN Result(m, "FAILURE", NULL, FALSE)
    ELSE LET elem == m.list.last
             prev == m.heap[elem].prev
             next == m.heap[elem].next
             h == update_links(m.heap, prev, NULL, next)
         IN [heap |-> free(h, elem),
             list |-> [update_desc(m.list, m.list.first, prev)
                          EXCEPT !.nb_elements = U32(@ - 1)],
             iters |-> m.iters,
             ret |-> "SUCCESS", data |-> h[elem].data,
             ub |-> \/ ~Valid(m.heap, elem)
                    \/ Dangling(m.heap, prev)
                    \/ Dangling(m.heap, next)]

\* new is what calloc returned: a free cell, or NULL
\* iterator_insert taking the place before the iterator's node whatever the
\* flag after is
Mut_iterator_insert(m, it, data, after, new) ==
    LET cur == ItElem(m, it)
    IN IF ~ItLive(m, it)
       THEN Result(m, "FAILURE", NULL, FALSE)
       ELSE IF cur = m.list.first
       THEN list_add_first(m, data, new)
       ELSE LET prev == m.heap[cur].prev
                next == cur
                bad == ~Valid(m.heap, cur)
            IN IF new = NULL
               THEN Result(m, "FAILURE", NULL, bad)
               ELSE [heap |-> update_links(
                                create_element(m.heap, new, data, prev, next),
                                prev, new, next),
                     list |-> [m.list EXCEPT !.nb_elements = U32(@ + 1)],
                     iters |-> m.iters,
                     ret |-> "SUCCESS", data |-> NULL,
                     ub |-> bad \/ Dangling(m.heap, prev) \/ Dangling(m.heap, next)]

iterator_insert(m, it, data, after, new) ==
    LET cur == ItElem(m, it)
    IN IF ~ItLive(m, it)
       THEN Result(m, "FAILURE", NULL, FALSE)
       ELSE IF after /\ cur = m.list.last
       THEN list_add_last(m, data, new)
       ELSE IF ~after /\ cur = m.list.first
       THEN list_add_first(m, data, new)
       ELSE LET prev == IF after THEN cur ELSE m.heap[cur].prev
                next == IF after THEN m.heap[cur].next ELSE cur
                bad == ~Valid(m.heap, cur)
            IN IF new = NULL
               THEN Result(m, "FAILURE", NULL, bad)
               ELSE [heap |-> update_links(
                                create_element(m.heap, new, data, prev, next),
                                prev, new, next),
                     list |-> [m.list EXCEPT !.nb_elements = U32(@ + 1)],
                     iters |-> m.iters,
                     ret |-> "SUCCESS", data |-> NULL,
                     ub |-> bad \/ Dangling(m.heap, prev) \/ Dangling(m.heap, next)]

\* the loop of list_add_find stopping at the first element that data is less
\* than or equal to
RECURSIVE Mut_FirstGreater(_, _, _, _, _)
Mut_FirstGreater(h, l, data, elem, fuel) ==
    IF elem = NULL \/ fuel = 0
    THEN NULL
    ELSE IF 0 >= comparator(l, data, h[elem].data)
         THEN elem
         ELSE Mut_FirstGreater(h, l, data, h[elem].next, fuel - 1)

\* the loop of list_add_find: the first element, from elem on, that data is
\* strictly less than; NULL when there is none.  fuel bounds the walk on a chain
\* that a call on freed memory has bent into a cycle.
RECURSIVE FirstGreater(_, _, _, _, _)
FirstGreater(h, l, data, elem, fuel) ==
    IF elem = NULL \/ fuel = 0
    THEN NULL
    ELSE IF 0 > comparator(l, data, h[elem].data)
         THEN elem
         ELSE FirstGreater(h, l, data, h[elem].next, fuel - 1)

\* whether a walk of at most fuel steps along next, from elem, reads a freed cell
RECURSIVE ChainDangles(_, _, _)
ChainDangles(h, elem, fuel) ==
    IF elem = NULL \/ fuel = 0
    THEN FALSE
    ELSE ~h[elem].alloc \/ ChainDangles(h, h[elem].next, fuel - 1)

list_add_find(m, data, new) ==
    IF ~m.list.live
    THEN Result(m, "FAILURE", NULL, FALSE)
    ELSE LET elem == FirstGreater(m.heap, m.list, data, m.list.first, MaxNodes + 1)
             placed == IF elem = NULL
                       THEN SetItElem(m, l_it, m.list.last)
                       ELSE SetItElem(m, l_it, elem)
             r == iterator_insert(placed, l_it, data, elem = NULL, new)
         IN [r EXCEPT !.ub = @ \/ ChainDangles(m.heap, m.list.first, MaxNodes + 1)]

\* the adapter's function pointers
adapter_push(m, data, new) ==
    IF set_adapter(m.list.adapter).push = "list_add_find"
    THEN list_add_find(m, data, new)
    ELSE list_add_last(m, data, new)

adapter_pop(m) ==
    IF set_adapter(m.list.adapter).pop = "list_get_first"
    THEN list_get_first(m)
    ELSE list_get_last(m)

\* whether some pointer held in r's memory (by the descriptor, by an iterator or
\* by a cell of h) has the value p
Referenced(r, h, p) ==
    \/ p \in {r.list.first, r.list.last, r.list.l_it}
    \/ \E i \in IterIds : r.iters[i].elem = p
    \/ \E n \in DOMAIN h : h[n].prev = p \/ h[n].next = p

\* The heap as later calls can observe it.  The contents of a cell that no
\* pointer refers to (a freed cell, or a cell that was never freed and is lost)
\* cannot be read before calloc zeroes the cell, so they are kept as zeroes; a
\* freed cell that a pointer still refers to keeps its last contents.
RECURSIVE Observable(_, _)
Observable(r, h) ==
    LET swept == [n \in DOMAIN h |->
                    IF n # NULL /\ ~Referenced(r, h, n)
                    THEN [NoElem EXCEPT !.alloc = h[n].alloc] ELSE h[n]]
    IN IF swept = h THEN h ELSE Observable(r, swept)

\* The memory a call leaves as later calls can observe it.  Every function that
\* reads list->l_it.elem assigns it first, so the position the embedded iterator
\* is left at cannot be read and is kept as NULL.
Left(r) ==
    LET seen == [r EXCEPT !.list.l_it = NULL]
    IN [seen EXCEPT !.heap = Observable(seen, seen.heap)]

\* A call ends: the memory it leaves and the record of the call.  A call that
\* dereferenced an invalid pointer may trap instead.
Return(r, call) ==
    /\ UNCHANGED cbvars
    /\ \E trap \in (IF r.ub THEN BOOLEAN ELSE {FALSE}) :
        IF trap
        THEN /\ undef' = "trapped"
             /\ l_call' = [call EXCEPT !.ret = "TRAP"]
             /\ UNCHANGED <<heap, list, iters>>
        ELSE /\ heap' = Left(r).heap
             /\ list' = Left(r).list
             /\ iters' = Left(r).iters
             /\ l_call' = [call EXCEPT !.ret = r.ret, !.data = r.data]
             /\ undef' = IF r.ub THEN "continued" ELSE undef

\* the index in q of the payload the discipline pops next
PopIndex(l, q) ==
    CASE l.adapter = "LIST_QUEUE" -> 1
      [] l.adapter = "LIST_PRIORITY_LIST" ->
            CHOOSE i \in 1..Len(q) :
                /\ \A j \in 1..Len(q) : comparator(l, q[j], q[i]) >= 0
                /\ \A j \in 1..(i - 1) : comparator(l, q[j], q[i]) > 0
      [] OTHER -> Len(q)

Without(q, i) == [j \in 1..(Len(q) - 1) |-> IF j < i THEN q[j] ELSE q[j + 1]]

push(data, new) ==
    /\ undef # "trapped"
    /\ list.live
    /\ Return(adapter_push(Mem, data, new),
              [NoListCall EXCEPT !.op = "push", !.arg = data])
    /\ pending' = IF l_call'.ret = "SUCCESS" THEN Append(pending, data) ELSE pending

pop ==
    /\ undef # "trapped"
    /\ list.live
    /\ Return(adapter_pop(Mem), [NoListCall EXCEPT !.op = "pop"])
    /\ pending' = IF l_call'.ret = "SUCCESS" /\ pending # << >>
                  THEN Without(pending, PopIndex(list, pending))
                  ELSE pending

ListIdle ==
    /\ heap = [n \in 0..MaxNodes |-> NoElem]
    /\ list = NoList
    /\ iters = [i \in IterIds |-> NoIter]
    /\ l_call = NoListCall
    /\ pending = << >>
    /\ undef = "none"

\* a list right after list_init, of any discipline and either comparator
PushPopInit ==
    /\ CBIdle
    /\ heap = [n \in 0..MaxNodes |-> NoElem]
    /\ list \in {list_init(cmp, type) : cmp \in Comparators, type \in AdapterTypes}
    /\ list.comparator = "user" => list.adapter = "LIST_PRIORITY_LIST"
    /\ iters = [i \in IterIds |-> NoIter]
    /\ l_call = NoListCall
    /\ pending = << >>
    /\ undef = "none"

PushPopNext ==
    \/ \E data \in Data, new \in FreeCells \cup {NULL} : push(data, new)
    \/ pop

\* pushes and pops through the adapter of one list
SpecPushPop == PushPopInit /\ [][PushPopNext]_vars

CBInit == CBIdle /\ ListIdle

SpecCB == CBInit /\ [][CBNext]_vars


(***************************************************************************)
(* Iterators and the rest of the list API                                  *)
(***************************************************************************)
IntMin == -(Modulus \div 2)

\* abs(idx).  abs(INT32_MIN) is undefined: the build either wraps it to INT32_MIN
\* or, having assumed the result non-negative, lets the loop of iterator_move run
\* its 2^31 steps.
abs(idx, wraps) ==
    IF idx = IntMin
    THEN IF wraps THEN IntMin ELSE Modulus \div 2
    ELSE IF idx < 0 THEN -idx ELSE idx

\* that loop without its direction: idx steps along next
RECURSIVE Mut_Walk(_, _, _, _)
Mut_Walk(h, elem, dir, idx) ==
    IF idx > 0 /\ elem # NULL
    THEN Mut_Walk(h, h[elem].next, dir, idx - 1)
    ELSE elem

\* the loop of iterator_move: idx steps from elem along next (dir > 0) or prev
RECURSIVE Walk(_, _, _, _)
Walk(h, elem, dir, idx) ==
    IF idx > 0 /\ elem # NULL
    THEN Walk(h, IF dir > 0 THEN h[elem].next ELSE h[elem].prev, dir, idx - 1)
    ELSE elem

\* whether that loop reads a freed cell
RECURSIVE WalkDangles(_, _, _, _)
WalkDangles(h, elem, dir, idx) ==
    IF idx > 0 /\ elem # NULL
    THEN \/ ~h[elem].alloc
         \/ WalkDangles(h, IF dir > 0 THEN h[elem].next ELSE h[elem].prev, dir, idx - 1)
    ELSE FALSE

iterator_move(m, it, idx, wraps) ==
    LET dir == IF idx < 0 THEN -1 ELSE 1
        elem == Walk(m.heap, ItElem(m, it), dir, abs(idx, wraps))
        bad == WalkDangles(m.heap, ItElem(m, it), dir, abs(idx, wraps))
    IN IF ~ItLive(m, it)
       THEN Result(m, "FAILURE", NULL, FALSE)
       ELSE IF elem = NULL
       THEN Result(m, "FAILURE", NULL, bad)
       ELSE Result(SetItElem(m, it, elem), "SUCCESS", NULL, bad)

iterator_init(m, it, start, alloc_ok) ==
    IF ~m.list.live \/ ~alloc_ok
    THEN Result(m, "FAILURE", NULL, FALSE)
    ELSE Result([m EXCEPT
                    !.list.nb_iterators = U32(@ + 1),
                    !.iters[it] = [live |-> TRUE,
                                   elem |-> IF start THEN m.list.first ELSE m.list.last]],
                "SUCCESS", NULL, FALSE)

\* iterator_remove without the decrement of nb_iterators
Mut_iterator_remove(m, it) ==
    IF ~ItLive(m, it)
    THEN Result(m, "FAILURE", NULL, FALSE)
    ELSE Result([m EXCEPT !.iters[it] = NoIter], "SUCCESS", NULL, FALSE)

iterator_remove(m, it) ==
    IF ~ItLive(m, it)
    THEN Result(m, "FAILURE", NULL, FALSE)
    ELSE Result([m EXCEPT !.list.nb_iterators = U32(@ - 1), !.iters[it] = NoIter],
                "SUCCESS", NULL, FALSE)

iterator_read(m, it) ==
    IF ~ItLive(m, it) \/ ItElem(m, it) = NULL
    THEN Result(m, "FAILURE", NULL, FALSE)
    ELSE Result(m, "SUCCESS", m.heap[ItElem(m, it)].data, Dangling(m.heap, ItElem(m, it)))

\* iterator_get leaving the iterator on the node before the removed one
Mut_iterator_get(m, it) ==
    LET cur == ItElem(m, it)
    IN IF ~ItLive(m, it) \/ cur = NULL
       THEN Result(m, "FAILURE", NULL, FALSE)
       ELSE LET h == update_links(m.heap, m.heap[cur].prev, NULL, m.heap[cur].next)
                l == IF cur = m.list.first
                     THEN update_desc(m.list, h[cur].next, m.list.last)
                     ELSE IF cur = m.list.last
                          THEN update_desc(m.list, m.list.first, h[cur].prev)
                          ELSE m.list
                left == [m EXCEPT !.heap = free(h, cur),
                                  !.list = [l EXCEPT !.nb_elements = U32(@ - 1)]]
            IN Result(SetItElem(left, it, h[cur].prev), "SUCCESS", h[cur].data,
                      \/ Dangling(m.heap, cur)
                      \/ Dangling(m.heap, m.heap[cur].prev)
                      \/ Dangling(m.heap, m.heap[cur].next))

iterator_get(m, it) ==
    LET cur == ItElem(m, it)
    IN IF ~ItLive(m, it) \/ cur = NULL
       THEN Result(m, "FAILURE", NULL, FALSE)
       ELSE LET h == update_links(m.heap, m.heap[cur].prev, NULL, m.heap[cur].next)
                l == IF cur = m.list.first
                     THEN update_desc(m.list, h[cur].next, m.list.last)
                     ELSE IF cur = m.list.last
                          THEN update_desc(m.list, m.list.first, h[cur].prev)
                          ELSE m.list
                next == IF cur = l.last THEN h[cur].prev ELSE h[cur].next
                left == [m EXCEPT !.heap = free(h, cur),
                                  !.list = [l EXCEPT !.nb_elements = U32(@ - 1)]]
            IN Result(SetItElem(left, it, next), "SUCCESS", h[cur].data,
                      \/ Dangling(m.heap, cur)
                      \/ Dangling(m.heap, m.heap[cur].prev)
                      \/ Dangling(m.heap, m.heap[cur].next))

\* the loop of list_remove: list_get_first until it returns NULL
RECURSIVE Drain(_, _)
Drain(m, fuel) ==
    LET r == list_get_first(m)
    IN IF r.data = NULL \/ fuel = 0
       THEN r
       ELSE [Drain(r, fuel - 1) EXCEPT !.ub = @ \/ r.ub]

\* list_remove without the check of nb_iterators
Mut_list_remove(m) ==
    IF ~m.list.live
    THEN Result(m, "FAILURE", NULL, FALSE)
    ELSE Result([Drain(m, MaxNodes + 1) EXCEPT !.list = NoList],
                "SUCCESS", NULL, Drain(m, MaxNodes + 1).ub)

list_remove(m) ==
    IF ~m.list.live \/ m.list.nb_iterators # 0
    THEN Result(m, "FAILURE", NULL, FALSE)
    ELSE Result([Drain(m, MaxNodes + 1) EXCEPT !.list = NoList],
                "SUCCESS", NULL, Drain(m, MaxNodes + 1).ub)

\* the memory a call left, for the next call made by the same function
MemOf(r) == [heap |-> r.heap, list |-> r.list, iters |-> r.iters]

\* list->first->data = new_data.  On an empty list the store goes through NULL:
\* it hits no memory of the list, and the call goes on to return SUCCESS.
list_edit_first(m, new_data) ==
    IF ~m.list.live
    THEN Result(m, "FAILURE", NULL, FALSE)
    ELSE IF m.list.first = NULL
    THEN Result(m, "SUCCESS", NULL, TRUE)
    ELSE Result([m EXCEPT !.heap[m.list.first].data = new_data], "SUCCESS", NULL,
                Dangling(m.heap, m.list.first))

list_edit_last(m, new_data) ==
    IF ~m.list.live
    THEN Result(m, "FAILURE", NULL, FALSE)
    ELSE IF m.list.last = NULL
    THEN Result(m, "SUCCESS", NULL, TRUE)
    ELSE Result([m EXCEPT !.heap[m.list.last].data = new_data], "SUCCESS", NULL,
                Dangling(m.heap, m.list.last))

\* it->elem->data = new_data, through NULL when the iterator has no position
iterator_edit(m, it, new_data) ==
    IF ~ItLive(m, it)
    THEN Result(m, "FAILURE", NULL, FALSE)
    ELSE IF ItElem(m, it) = NULL
    THEN Result(m, "SUCCESS", NULL, TRUE)
    ELSE Result([m EXCEPT !.heap[ItElem(m, it)].data = new_data], "SUCCESS", NULL,
                Dangling(m.heap, ItElem(m, it)))

\* the loop of iterator_find: the first element, from elem on, that compares
\* equal to cmp_data; NULL when there is none
RECURSIVE FirstEqual(_, _, _, _, _)
FirstEqual(h, l, cmp_data, elem, fuel) ==
    IF elem = NULL \/ fuel = 0
    THEN NULL
    ELSE IF 0 = comparator(l, h[elem].data, cmp_data)
         THEN elem
         ELSE FirstEqual(h, l, cmp_data, h[elem].next, fuel - 1)

\* iterator_find scanning from the iterator's node instead of the first node
Mut_iterator_find(m, it, cmp_data) ==
    LET elem == FirstEqual(m.heap, m.list, cmp_data, ItElem(m, it), MaxNodes + 1)
        bad == ChainDangles(m.heap, m.list.first, MaxNodes + 1)
    IN IF ~ItLive(m, it)
       THEN Result(m, "FAILURE", NULL, FALSE)
       ELSE IF elem = NULL
       THEN Result(m, "FAILURE", NULL, bad)
       ELSE Result(SetItElem(m, it, elem), "SUCCESS", NULL, bad)

iterator_find(m, it, cmp_data) ==
    LET elem == FirstEqual(m.heap, m.list, cmp_data, m.list.first, MaxNodes + 1)
        bad == ChainDangles(m.heap, m.list.first, MaxNodes + 1)
    IN IF ~ItLive(m, it)
       THEN Result(m, "FAILURE", NULL, FALSE)
       ELSE IF elem = NULL
       THEN Result(m, "FAILURE", NULL, bad)
       ELSE Result(SetItElem(m, it, elem), "SUCCESS", NULL, bad)

list_read_first(m) ==
    IF ~m.list.live \/ m.list.first = NULL
    THEN Result(m, "FAILURE", NULL, FALSE)
    ELSE Result(m, "SUCCESS", m.heap[m.list.first].data, Dangling(m.heap, m.list.first))

list_read_last(m) ==
    IF ~m.list.live \/ m.list.last = NULL
    THEN Result(m, "FAILURE", NULL, FALSE)
    ELSE Result(m, "SUCCESS", m.heap[m.list.last].data, Dangling(m.heap, m.list.last))

\* list->l_it.elem = list->first; iterator_move(&(list->l_it), idx): the uint32_t
\* idx is converted to the int32_t parameter of iterator_move
MoveToIdx(m, idx, wraps) ==
    iterator_move(SetItElem(m, l_it, m.list.first), l_it, I32(idx), wraps)

\* list->l_it.elem = list->first; iterator_find(&(list->l_it), cmp_data)
MoveToFound(m, cmp_data) ==
    iterator_find(SetItElem(m, l_it, m.list.first), l_it, cmp_data)

\* the second call of a function, made after a first call that left r
Then(r, second) == [second EXCEPT !.ub = @ \/ r.ub]

\* list_add_idx putting the element after the one at idx instead of before it
Mut_list_add_idx(m, data, idx, new, wraps) ==
    IF ~m.list.live
    THEN Result(m, "FAILURE", NULL, FALSE)
    ELSE IF m.list.nb_elements = 0 \/ idx = 0
    THEN list_add_first(m, data, new)
    ELSE IF m.list.nb_elements = idx
    THEN list_add_last(m, data, new)
    ELSE LET mv == MoveToIdx(m, idx, wraps)
         IN IF mv.ret # "SUCCESS"
            THEN [mv EXCEPT !.ret = "FAILURE"]
            ELSE Then(mv, iterator_insert(MemOf(mv), l_it, data, TRUE, new))

list_add_idx(m, data, idx, new, wraps) ==
    IF ~m.list.live
    THEN Result(m, "FAILURE", NULL, FALSE)
    ELSE IF m.list.nb_elements = 0 \/ idx = 0
    THEN list_add_first(m, data, new)
    ELSE IF m.list.nb_elements = idx
    THEN list_add_last(m, data, new)
    ELSE LET mv == MoveToIdx(m, idx, wraps)
         IN IF mv.ret # "SUCCESS"
            THEN [mv EXCEPT !.ret = "FAILURE"]
            ELSE Then(mv, iterator_insert(MemOf(mv), l_it, data, FALSE, new))

list_edit_idx(m, new_data, idx, wraps) ==
    IF ~m.list.live
    THEN Result(m, "FAILURE", NULL, FALSE)
    ELSE LET mv == MoveToIdx(m, idx, wraps)
         IN IF mv.ret # "SUCCESS"
            THEN [mv EXCEPT !.ret = "FAILURE"]
            ELSE Then(mv, iterator_edit(MemOf(mv), l_it, new_data))

list_edit_find(m, new_data, cmp_data) ==
    IF ~m.list.live
    THEN Result(m, "FAILURE", NULL, FALSE)
    ELSE LET mv == MoveToFound(m, cmp_data)
         IN IF mv.ret # "SUCCESS"
            THEN [mv EXCEPT !.ret = "FAILURE"]
            ELSE Then(mv, iterator_edit(MemOf(mv), l_it, new_data))

list_read_idx(m, idx, wraps) ==
    IF ~m.list.live \/ idx >= m.list.nb_elements
    THEN Result(m, "FAILURE", NULL, FALSE)
    ELSE LET mv == MoveToIdx(m, idx, wraps)
         IN IF mv.ret # "SUCCESS"
            THEN [mv EXCEPT !.ret = "FAILURE"]
            ELSE Then(mv, iterator_read(MemOf(mv), l_it))

list_read_find(m, cmp_data) ==
    IF ~m.list.live
    THEN Result(m, "FAILURE", NULL, FALSE)
    ELSE LET mv == MoveToFound(m, cmp_data)
         IN IF mv.ret # "SUCCESS"
            THEN [mv EXCEPT !.ret = "FAILURE"]
            ELSE Then(mv, iterator_read(MemOf(mv), l_it))

list_get_idx(m, idx, wraps) ==
    IF ~m.list.live
    THEN Result(m, "FAILURE", NULL, FALSE)
    ELSE LET mv == MoveToIdx(m, idx, wraps)
         IN IF mv.ret # "SUCCESS"
            THEN [mv EXCEPT !.ret = "FAILURE"]
            ELSE Then(mv, iterator_get(MemOf(mv), l_it))

\* list_get_find without its test of what iterator_find returned
Mut_list_get_find(m, cmp_data) ==
    IF ~m.list.live
    THEN Result(m, "FAILURE", NULL, FALSE)
    ELSE LET mv == MoveToFound(m, cmp_data)
         IN Then(mv, iterator_get(MemOf(mv), l_it))

list_get_find(m, cmp_data) ==
    IF ~m.list.live
    THEN Result(m, "FAILURE", NULL, FALSE)
    ELSE LET mv == MoveToFound(m, cmp_data)
         IN IF mv.ret # "SUCCESS"
            THEN [mv EXCEPT !.ret = "FAILURE"]
            ELSE Then(mv, iterator_get(MemOf(mv), l_it))

\* the cells linked from list.first along next, in order
RECURSIVE ChainFrom(_, _, _)
ChainFrom(h, elem, fuel) ==
    IF elem = NULL \/ fuel = 0
    THEN << >>
    ELSE <<elem>> \o ChainFrom(h, h[elem].next, fuel - 1)

Chain == ChainFrom(heap, list.first, MaxNodes + 1)

\* the index of cell elem in the sequence chain, 0 when it is not in it
IndexIn(chain, elem) ==
    IF \E i \in 1..Len(chain) : chain[i] = elem
    THEN CHOOSE i \in 1..Len(chain) : chain[i] = elem
    ELSE 0

ListCall(op) == [NoListCall EXCEPT !.op = op]

IterCall(op, it) ==
    [ListCall(op) EXCEPT !.it = it]

\* the iterator object calloc returns: which of the free ones cannot be observed
FreeIter == CHOOSE i \in IterIds : ~iters[i].live /\ \A j \in 1..(i - 1) : iters[j].live

\* the payloads callers store through the list API
ListData == 0..MaxListData

\* the step counts callers pass to iterator_move
Steps == ((-MaxNodes)..MaxNodes) \cup {IntMin}

do_list_init(cmp, type, alloc_ok) ==
    /\ undef = "none"
    /\ ~list.live
    /\ Return(IF alloc_ok
              THEN Result([Mem EXCEPT !.list = list_init(cmp, type)], "SUCCESS", NULL, FALSE)
              ELSE Result(Mem, "FAILURE", NULL, FALSE),
              [ListCall("list_init") EXCEPT !.nomem = ~alloc_ok])
    /\ UNCHANGED pending

do_list_remove ==
    /\ undef = "none"
    /\ list.live
    /\ Return(list_remove(Mem), ListCall("list_remove"))
    /\ UNCHANGED pending

do_list_add_first(data, new) ==
    /\ undef = "none"
    /\ list.live
    /\ Return(list_add_first(Mem, data, new),
              [ListCall("list_add_first") EXCEPT !.arg = data, !.nomem = (new = NULL)])
    /\ UNCHANGED pending

do_list_add_last(data, new) ==
    /\ undef = "none"
    /\ list.live
    /\ Return(list_add_last(Mem, data, new),
              [ListCall("list_add_last") EXCEPT !.arg = data, !.nomem = (new = NULL)])
    /\ UNCHANGED pending

do_list_add_find(data, new) ==
    /\ undef = "none"
    /\ list.live
    /\ Return(list_add_find(Mem, data, new),
              [ListCall("list_add_find") EXCEPT !.arg = data, !.nomem = (new = NULL)])
    /\ UNCHANGED pending

do_list_get_first ==
    /\ undef = "none"
    /\ list.live
    /\ Return(list_get_first(Mem), ListCall("list_get_first"))
    /\ UNCHANGED pending

do_list_get_last ==
    /\ undef = "none"
    /\ list.live
    /\ Return(list_get_last(Mem), ListCall("list_get_last"))
    /\ UNCHANGED pending

do_iterator_init(start, alloc_ok) ==
    /\ undef = "none"
    /\ list.live
    /\ \E i \in IterIds : ~iters[i].live
    /\ Return(iterator_init(Mem, FreeIter, start, alloc_ok),
              [ListCall("iterator_init") EXCEPT !.it = FreeIter, !.nomem = ~alloc_ok])
    /\ UNCHANGED pending

do_iterator_remove(it) ==
    /\ undef = "none"
    /\ iters[it].live
    /\ Return(iterator_remove(Mem, it), IterCall("iterator_remove", it))
    /\ UNCHANGED pending

do_iterator_move(it, idx, wraps) ==
    /\ undef = "none"
    /\ iters[it].live
    /\ Return(iterator_move(Mem, it, idx, wraps),
              [IterCall("iterator_move", it) EXCEPT
                    !.idx = idx,
                    !.from = iters[it].elem,
                    !.undoes = /\ l_call.op = "iterator_move"
                               /\ l_call.it = it
                               /\ l_call.ret = "SUCCESS"
                               /\ idx # IntMin
                               /\ l_call.idx = -idx])
    /\ UNCHANGED pending

do_iterator_read(it) ==
    /\ undef = "none"
    /\ iters[it].live
    /\ Return(iterator_read(Mem, it), IterCall("iterator_read", it))
    /\ UNCHANGED pending

do_iterator_get(it) ==
    /\ undef = "none"
    /\ iters[it].live
    /\ Return(iterator_get(Mem, it), IterCall("iterator_get", it))
    /\ UNCHANGED pending

do_iterator_insert(it, data, after, new) ==
    /\ undef = "none"
    /\ iters[it].live
    /\ Return(iterator_insert(Mem, it, data, after, new),
              [IterCall("iterator_insert", it) EXCEPT
                    !.arg = data, !.after = after, !.nomem = (new = NULL)])
    /\ UNCHANGED pending

do_iterator_edit(it, new_data) ==
    /\ undef = "none"
    /\ iters[it].live
    /\ Return(iterator_edit(Mem, it, new_data),
              [IterCall("iterator_edit", it) EXCEPT !.arg = new_data])
    /\ UNCHANGED pending

do_iterator_find(it, cmp_data) ==
    /\ undef = "none"
    /\ iters[it].live
    /\ Return(iterator_find(Mem, it, cmp_data),
              [IterCall("iterator_find", it) EXCEPT !.arg = cmp_data])
    /\ UNCHANGED pending

\* the indexes callers pass to the list_*_idx functions: every index up to one
\* past the longest list, 0x80000000 and 0xFFFFFFFF
Indexes == (0..(MaxNodes + 1)) \cup {Modulus \div 2, Modulus - 1}

\* the outcomes of abs() in a list_*_idx call with index idx
AbsOutcomes(idx) == IF I32(idx) = IntMin THEN BOOLEAN ELSE {TRUE}

do_list_add_idx(data, idx, new, wraps) ==
    /\ undef = "none"
    /\ list.live
    /\ Return(list_add_idx(Mem, data, idx, new, wraps),
              [ListCall("list_add_idx") EXCEPT
                    !.arg = data, !.idx = idx, !.nomem = (new = NULL)])
    /\ UNCHANGED pending

do_list_edit_first(new_data) ==
    /\ undef = "none"
    /\ list.live
    /\ Return(list_edit_first(Mem, new_data),
              [ListCall("list_edit_first") EXCEPT !.arg = new_data])
    /\ UNCHANGED pending

do_list_edit_last(new_data) ==
    /\ undef = "none"
    /\ list.live
    /\ Return(list_edit_last(Mem, new_data),
              [ListCall("list_edit_last") EXCEPT !.arg = new_data])
    /\ UNCHANGED pending

do_list_edit_idx(new_data, idx, wraps) ==
    /\ undef = "none"
    /\ list.live
    /\ Return(list_edit_idx(Mem, new_data, idx, wraps),
              [ListCall("list_edit_idx") EXCEPT !.arg = new_data, !.idx = idx])
    /\ UNCHANGED pending

\* l_call.arg is the key cmp_data; the new payload is not recorded
do_list_edit_find(new_data, cmp_data) ==
    /\ undef = "none"
    /\ list.live
    /\ Return(list_edit_find(Mem, new_data, cmp_data),
              [ListCall("list_edit_find") EXCEPT !.arg = cmp_data])
    /\ UNCHANGED pending

do_list_read_first ==
    /\ undef = "none"
    /\ list.live
    /\ Return(list_read_first(Mem), ListCall("list_read_first"))
    /\ UNCHANGED pending

do_list_read_last ==
    /\ undef = "none"
    /\ list.live
    /\ Return(list_read_last(Mem), ListCall("list_read_last"))
    /\ UNCHANGED pending

do_list_read_idx(idx, wraps) ==
    /\ undef = "none"
    /\ list.live
    /\ Return(list_read_idx(Mem, idx, wraps),
              [ListCall("list_read_idx") EXCEPT !.idx = idx])
    /\ UNCHANGED pending

do_list_read_find(cmp_data) ==
    /\ undef = "none"
    /\ list.live
    /\ Return(list_read_find(Mem, cmp_data),
              [ListCall("list_read_find") EXCEPT !.arg = cmp_data])
    /\ UNCHANGED pending

do_list_get_idx(idx, wraps) ==
    /\ undef = "none"
    /\ list.live
    /\ Return(list_get_idx(Mem, idx, wraps),
              [ListCall("list_get_idx") EXCEPT !.idx = idx])
    /\ UNCHANGED pending

do_list_get_find(cmp_data) ==
    /\ undef = "none"
    /\ list.live
    /\ Return(list_get_find(Mem, cmp_data),
              [ListCall("list_get_find") EXCEPT !.arg = cmp_data])
    /\ UNCHANGED pending

ListInit == CBIdle /\ ListIdle

ListNext ==
    \/ \E cmp \in Comparators, alloc_ok \in BOOLEAN :
            do_list_init(cmp, "LIST_DEFAULT", alloc_ok)
    \/ do_list_remove
    \/ \E data \in ListData, new \in FreeCells \cup {NULL} : do_list_add_first(data, new)
    \/ \E data \in ListData, new \in FreeCells \cup {NULL} : do_list_add_last(data, new)
    \/ \E data \in ListData, new \in FreeCells \cup {NULL} : do_list_add_find(data, new)
    \/ do_list_get_first
    \/ do_list_get_last
    \/ \E start \in BOOLEAN, alloc_ok \in BOOLEAN : do_iterator_init(start, alloc_ok)
    \/ \E it \in IterIds : do_iterator_remove(it)
    \/ \E it \in IterIds, idx \in Steps :
            \E wraps \in (IF idx = IntMin THEN BOOLEAN ELSE {TRUE}) :
                do_iterator_move(it, idx, wraps)
    \/ \E it \in IterIds : do_iterator_read(it)
    \/ \E it \in IterIds : do_iterator_get(it)
    \/ \E it \in IterIds, data \in ListData, after \in BOOLEAN, new \in FreeCells \cup {NULL} :
            do_iterator_insert(it, data, after, new)
    \/ \E it \in IterIds, new_data \in ListData : do_iterator_edit(it, new_data)
    \/ \E it \in IterIds, cmp_data \in ListData : do_iterator_find(it, cmp_data)

\* The list API and the iterators of one list.  What a program does after
\* undefined behaviour is not constrained by the source: a run is followed up to
\* the call that has it and that call's outcomes.
SpecList == ListInit /\ [][ListNext]_vars

(***************************************************************************)
(* Adapter claims.  pending holds the payloads pushed and not yet popped,  *)
(* in push order, so its head is the oldest push not yet popped and its    *)
(* last element the newest.                                                *)
(***************************************************************************)

C3_PriorityPopsSortedAndStable ==
    [][(list.adapter = "LIST_PRIORITY_LIST" /\ l_call'.op = "pop")
        => IF pending = << >>
           THEN l_call'.ret = "FAILURE"
           ELSE /\ l_call'.ret = "SUCCESS"
                /\ l_call'.data = pending[PopIndex(list, pending)]]_vars

\* C3 witness: after the pushes 2, 1, 0 under the caller's comparator (1 and 0
\* carry the same key) the pop returned 1, the first pushed of the two least.
C3_Witness ==
    /\ list.adapter = "LIST_PRIORITY_LIST"
    /\ list.comparator = "user"
    /\ l_call.op = "pop"
    /\ l_call.ret = "SUCCESS"
    /\ l_call.data = 1
    /\ pending = <<2, 0>>

IndexNext ==
    \/ \E cmp \in Comparators, alloc_ok \in BOOLEAN :
            do_list_init(cmp, "LIST_DEFAULT", alloc_ok)
    \/ do_list_remove
    \/ \E data \in ListData, new \in FreeCells \cup {NULL} : do_list_add_first(data, new)
    \/ \E data \in ListData, new \in FreeCells \cup {NULL} : do_list_add_last(data, new)
    \/ \E data \in ListData, new \in FreeCells \cup {NULL} : do_list_add_find(data, new)
    \/ \E data \in ListData, new \in FreeCells \cup {NULL}, idx \in Indexes :
            \E wraps \in AbsOutcomes(idx) : do_list_add_idx(data, idx, new, wraps)
    \/ \E new_data \in ListData : do_list_edit_first(new_data)
    \/ \E new_data \in ListData : do_list_edit_last(new_data)
    \/ \E new_data \in ListData, idx \in Indexes :
            \E wraps \in AbsOutcomes(idx) : do_list_edit_idx(new_data, idx, wraps)
    \/ \E new_data \in ListData, cmp_data \in ListData : do_list_edit_find(new_data, cmp_data)
    \/ do_list_read_first
    \/ do_list_read_last
    \/ \E idx \in Indexes : \E wraps \in AbsOutcomes(idx) : do_list_read_idx(idx, wraps)
    \/ \E cmp_data \in ListData : do_list_read_find(cmp_data)
    \/ do_list_get_first
    \/ do_list_get_last
    \/ \E idx \in Indexes : \E wraps \in AbsOutcomes(idx) : do_list_get_idx(idx, wraps)
    \/ \E cmp_data \in ListData : do_list_get_find(cmp_data)

\* The list API by end, by index and by key, on a list without caller's
\* iterators.  A run is followed up to the first call with undefined behaviour.
SpecIndex == ListInit /\ [][IndexNext]_vars

\* the adapter's swap, top_next and back function pointers
adapter_swap(m, new_data) ==
    IF set_adapter(m.list.adapter).swap = "list_edit_first"
    THEN list_edit_first(m, new_data)
    ELSE list_edit_last(m, new_data)

\* top_next reading the end that pop does not take from
Mut_adapter_top_next(m) ==
    IF set_adapter(m.list.adapter).top_next = "list_read_first"
    THEN list_read_last(m)
    ELSE list_read_first(m)

adapter_top_next(m) ==
    IF set_adapter(m.list.adapter).top_next = "list_read_first"
    THEN list_read_first(m)
    ELSE list_read_last(m)

adapter_back(m) ==
    IF set_adapter(m.list.adapter).back = "list_read_last"
    THEN list_read_last(m)
    ELSE list_read_first(m)

\* swap replaces the payload that the next pop would have returned
swap(new_data) ==
    /\ undef # "trapped"
    /\ list.live
    /\ Return(adapter_swap(Mem, new_data),
              [NoListCall EXCEPT !.op = "swap", !.arg = new_data])
    /\ pending' = IF l_call'.ret = "SUCCESS" /\ pending # << >>
                  THEN [pending EXCEPT ![PopIndex(list, pending)] = new_data]
                  ELSE pending

top_next ==
    /\ undef # "trapped"
    /\ list.live
    /\ Return(adapter_top_next(Mem), [NoListCall EXCEPT !.op = "top_next"])
    /\ UNCHANGED pending

back ==
    /\ undef # "trapped"
    /\ list.live
    /\ Return(adapter_back(Mem), [NoListCall EXCEPT !.op = "back"])
    /\ UNCHANGED pending

AdapterNext ==
    \/ \E data \in Data, new \in FreeCells \cup {NULL} : push(data, new)
    \/ pop
    \/ \E new_data \in Data : swap(new_data)
    \/ top_next
    \/ back

\* every call of the adapter on one list
SpecAdapter == PushPopInit /\ [][AdapterNext]_vars

FindNext ==
    \/ \E cmp \in Comparators, alloc_ok \in BOOLEAN :
            do_list_init(cmp, "LIST_DEFAULT", alloc_ok)
    \/ \E data \in ListData, new \in FreeCells \cup {NULL} : do_list_add_first(data, new)
    \/ \E data \in ListData, new \in FreeCells \cup {NULL} : do_list_add_last(data, new)
    \/ do_list_get_first
    \/ \E start \in BOOLEAN, alloc_ok \in BOOLEAN : do_iterator_init(start, alloc_ok)
    \/ \E it \in IterIds : do_iterator_remove(it)
    \/ \E it \in IterIds, idx \in Steps :
            \E wraps \in (IF idx = IntMin THEN BOOLEAN ELSE {TRUE}) :
                do_iterator_move(it, idx, wraps)
    \/ \E it \in IterIds, cmp_data \in ListData : do_iterator_find(it, cmp_data)
    \/ \E new_data \in ListData, cmp_data \in ListData : do_list_edit_find(new_data, cmp_data)
    \/ \E cmp_data \in ListData : do_list_read_find(cmp_data)
    \/ \E cmp_data \in ListData : do_list_get_find(cmp_data)

\* The searches by key, of the list and of its iterators.  A run is followed up
\* to the first call with undefined behaviour.
SpecFind == ListInit /\ [][FindNext]_vars

AdapterIterNext ==
    \/ \E data \in ListData, new \in FreeCells \cup {NULL} : push(data, new)
    \/ pop
    \/ \E new_data \in ListData : swap(new_data)
    \/ top_next
    \/ back
    \/ \E start \in BOOLEAN, alloc_ok \in BOOLEAN : do_iterator_init(start, alloc_ok)
    \/ \E it \in IterIds : do_iterator_remove(it)
    \/ \E it \in IterIds, idx \in Steps :
            \E wraps \in (IF idx = IntMin THEN BOOLEAN ELSE {TRUE}) :
                do_iterator_move(it, idx, wraps)

\* The adapter of one list, used while iterators are bound to the list.
SpecAdapterIter == PushPopInit /\ [][AdapterIterNext]_vars

\* payload values over the whole width of a pointer: the lowest, the highest and
\* the two around the middle of the range
WideData == {0, 1, Modulus \div 2 - 1, Modulus \div 2, Modulus - 1}

\* list->comparator(data1, data2) with the default comparator, as list_add_find
\* and the find functions call it; the int32_t it returns is kept in l_call.data
do_default_comparator(data1, data2) ==
    /\ undef = "none"
    /\ l_call' = [ListCall("default_comparator") EXCEPT
                     !.arg = data1, !.from = data2,
                     !.data = default_comparator(data1, data2)]
    /\ UNCHANGED <<cb, cb_call, accepted, delivered, heap, list, iters, pending, undef>>

CompareNext ==
    \/ \E alloc_ok \in BOOLEAN : do_list_init("default", "LIST_PRIORITY_LIST", alloc_ok)
    \/ \E data1 \in WideData, data2 \in WideData : do_default_comparator(data1, data2)
    \/ \E data \in WideData, new \in FreeCells \cup {NULL} : do_list_add_find(data, new)
    \/ do_list_get_first

\* The default comparator and the sorted insert that relies on it, on payloads
\* from the whole range of a pointer.
SpecCompare == ListInit /\ [][CompareNext]_vars

(***************************************************************************)
(* Iterator claims.  They are about calls made while nothing undefined has  *)
(* happened (undef = "none") on an iterator that stands on the chain.       *)
(***************************************************************************)

\* the 1-based index of iterator it's position in the chain, 0 when it is not on it
Pos(it) == IndexIn(Chain, iters[it].elem)

\* the cells linked from elem along prev, in order
RECURSIVE BackFrom(_, _, _)
BackFrom(h, elem, fuel) ==
    IF elem = NULL \/ fuel = 0
    THEN << >>
    ELSE <<elem>> \o BackFrom(h, h[elem].prev, fuel - 1)

BackChain == BackFrom(heap, list.last, MaxNodes + 1)

\* C11: the list's structure, in every state of a live list: first is absent
\* iff last is absent iff nb_elements is 0; walking next from first visits
\* exactly nb_elements nodes and ends at last; walking prev from last visits the
\* same nodes in reverse and ends at first; first.prev and last.next are absent;
\* every node is the prev of its next and the next of its prev.
C11_ListStructure ==
    list.live =>
        /\ (list.first = NULL) <=> (list.last = NULL)
        /\ (list.first = NULL) <=> (list.nb_elements = 0)
        /\ Len(Chain) = list.nb_elements
        /\ Len(BackChain) = Len(Chain)
        /\ \A i \in 1..Len(Chain) : BackChain[Len(Chain) + 1 - i] = Chain[i]
        /\ Chain # << >> =>
                /\ Chain[Len(Chain)] = list.last
                /\ heap[list.first].prev = NULL
                /\ heap[list.last].next = NULL
        /\ \A i \in 1..(Len(Chain) - 1) : heap[Chain[i + 1]].prev = Chain[i]

\* C7: iterator_move is atomic: when moving |idx| steps in the direction of the
\* sign of idx from the iterator's position steps off the chain, the call
\* returns FAILURE and the iterator keeps its position.
C7_MoveIsAtomic ==
    [][\A it \in IterIds :
        (/\ undef = "none"
         /\ l_call'.op = "iterator_move"
         /\ l_call'.it = it
         /\ Pos(it) # 0
         /\ Pos(it) + l_call'.idx \notin 1..Len(Chain))
        => (l_call'.ret = "FAILURE" /\ iters' = iters)]_vars

\* C8: when iterator_move by idx succeeded, the iterator_move of the same
\* iterator by -idx that directly follows it succeeds and puts the iterator
\* back on the node the first call found it on.  (-idx exists as an int32_t for
\* every idx but INT32_MIN.)
C8_MoveThereAndBack ==
    [][\A it \in IterIds :
        (/\ undef = "none"
         /\ l_call.op = "iterator_move"
         /\ l_call.it = it
         /\ l_call.ret = "SUCCESS"
         /\ l_call.idx # IntMin
         /\ l_call'.op = "iterator_move"
         /\ l_call'.it = it
         /\ l_call'.idx = -l_call.idx)
        => (l_call'.ret = "SUCCESS" /\ iters'[it].elem = l_call.from)]_vars

\* C8 witness: on a chain of three nodes an iterator_move by -2 took back a
\* successful iterator_move by 2 and the iterator is on the first node again.
C8_Witness ==
    /\ undef = "none"
    /\ l_call.op = "iterator_move"
    /\ l_call.undoes
    /\ l_call.idx = -2
    /\ l_call.ret = "SUCCESS"
    /\ Len(Chain) = 3
    /\ l_call.from = list.last
    /\ iters[l_call.it].elem = list.first

\* C9: list_remove on a list that has a live iterator (a non-zero count of
\* iterators) returns FAILURE and changes nothing: the elements, their order,
\* the list's counts and the iterators are as before the call.
C9_RemoveWithIteratorsFails ==
    [][(/\ undef = "none"
        /\ l_call'.op = "list_remove"
        /\ list.live
        /\ \/ list.nb_iterators > 0
           \/ \E it \in IterIds : iters[it].live)
       => (/\ l_call'.ret = "FAILURE"
           /\ heap' = heap
           /\ list' = list
           /\ iters' = iters)]_vars

\* C9 witness: list_remove failed on a list of two elements with a live iterator
\* on its second.
C9_Witness ==
    /\ undef = "none"
    /\ l_call.op = "list_remove"
    /\ l_call.ret = "FAILURE"
    /\ list.live
    /\ list.nb_elements = 2
    /\ Len(Chain) = 2
    /\ iters[1].live
    /\ iters[1].elem = list.last

\* C10: when iterator_get removes the tail of a list of at least two elements,
\* the iterator is afterwards on the new tail, the removed node's predecessor,
\* and an iterator_read of it succeeds and returns the new last payload.
C10_GetOfTailLeavesNewTail ==
    [][\A it \in IterIds :
        (/\ undef = "none"
         /\ l_call'.op = "iterator_get"
         /\ l_call'.it = it
         /\ Len(Chain) >= 2
         /\ iters[it].elem = list.last)
        => LET after == [heap |-> heap', list |-> list', iters |-> iters']
           IN /\ l_call'.ret = "SUCCESS"
              /\ iters'[it].elem = heap[list.last].prev
              /\ iters'[it].elem = list'.last
              /\ iterator_read(after, it).ret = "SUCCESS"
              /\ iterator_read(after, it).data = heap'[list'.last].data]_vars

\* C18: a successful list_remove releases every node of the list and the
\* descriptor, whatever the payloads are: no node remains allocated after it.
C18_RemoveReleasesEveryNode ==
    [][(/\ undef = "none"
        /\ l_call'.op = "list_remove"
        /\ l_call'.ret = "SUCCESS")
       => (/\ ~list'.live
           /\ \A n \in NodeIds : ~heap'[n].alloc)]_vars

(***************************************************************************)
(* Claims about the list API by end, by index and by key.                  *)
(***************************************************************************)

\* the payloads of the chain, in order
Payloads == [i \in 1..Len(Chain) |-> heap[Chain[i]].data]

\* C15: list_add_idx with idx > nb_elements, and list_edit_idx, list_read_idx
\* and list_get_idx with idx >= nb_elements, return FAILURE and leave the
\* list's elements, their order and the count as they were, on every list, the
\* empty list included.
C15_IndexOutOfRangeFails ==
    [][(/\ undef = "none"
        /\ list.live
        /\ \/ /\ l_call'.op = "list_add_idx"
              /\ l_call'.idx > list.nb_elements
           \/ /\ l_call'.op \in {"list_edit_idx", "list_read_idx", "list_get_idx"}
              /\ l_call'.idx >= list.nb_elements)
       => (/\ l_call'.ret = "FAILURE"
           /\ heap' = heap
           /\ list' = list)]_vars

\* C16: list_edit_first and list_edit_last called on an empty list return
\* FAILURE and leave the list empty, and no absent node is accessed.
C16_EditOnEmptyListFails ==
    [][(/\ undef = "none"
        /\ list.live
        /\ list.nb_elements = 0
        /\ l_call'.op \in {"list_edit_first", "list_edit_last"})
       => (/\ l_call'.ret = "FAILURE"
           /\ undef' = "none"
           /\ heap' = heap
           /\ list' = list)]_vars

\* C17: iterator_read and iterator_edit called with an iterator that has no
\* current position return FAILURE, access no node and leave the list as it was.
C17_NoPositionFails ==
    [][(/\ undef = "none"
        /\ l_call'.op \in {"iterator_read", "iterator_edit"}
        /\ iters[l_call'.it].live
        /\ iters[l_call'.it].elem = NULL)
       => (/\ l_call'.ret = "FAILURE"
           /\ undef' = "none"
           /\ heap' = heap
           /\ list' = list
           /\ iters' = iters)]_vars

\* C19: on a LIST_PRIORITY_LIST, after any sequence of push, pop and swap, pop
\* removes and returns the lowest element under the comparator, top_next reads
\* the lowest element and back reads the biggest one.
C19_PriorityOrderKept ==
    [][(/\ undef = "none"
        /\ list.live
        /\ list.adapter = "LIST_PRIORITY_LIST"
        /\ Chain # << >>
        /\ l_call'.op \in {"pop", "top_next", "back"})
       => (/\ l_call'.ret = "SUCCESS"
           /\ l_call'.op \in {"pop", "top_next"} =>
                 \A i \in 1..Len(Chain) :
                     comparator(list, l_call'.data, Payloads[i]) <= 0
           /\ l_call'.op = "back" =>
                 \A i \in 1..Len(Chain) :
                     comparator(list, l_call'.data, Payloads[i]) >= 0
           /\ l_call'.op = "pop" => Len(Chain') = Len(Chain) - 1)]_vars

\* the place in the chain that the call recorded in c addresses, 0 when no
\* element is there
Addressed(c) ==
    CASE c.op \in {"list_read_first", "list_get_first"} ->
            IF Chain = << >> THEN 0 ELSE 1
      [] c.op \in {"list_read_last", "list_get_last"} -> Len(Chain)
      [] c.op \in {"list_read_idx", "list_get_idx"} ->
            IF c.idx < Len(Chain) THEN c.idx + 1 ELSE 0
      [] c.op \in {"list_read_find", "list_get_find"} ->
            IF \E i \in 1..Len(Chain) : comparator(list, Payloads[i], c.arg) = 0
            THEN CHOOSE i \in 1..Len(Chain) :
                    /\ comparator(list, Payloads[i], c.arg) = 0
                    /\ \A j \in 1..(i - 1) : comparator(list, Payloads[j], c.arg) # 0
            ELSE 0
      [] OTHER -> IndexIn(Chain, iters[c.it].elem)

ReadAndGetOps ==
    {"list_read_first", "list_read_last", "list_read_idx", "list_read_find",
     "list_get_first", "list_get_last", "list_get_idx", "list_get_find",
     "iterator_read", "iterator_get"}

\* C20: a read-style or get-style call returns SUCCESS exactly when an element
\* existed at the position it addresses, the value it returns is then that
\* element's payload (a NULL payload included), and it returns FAILURE otherwise.
C20_SuccessIffElementExists ==
    [][(/\ undef = "none"
        /\ list.live
        /\ l_call'.op \in ReadAndGetOps)
       => IF Addressed(l_call') = 0
          THEN l_call'.ret = "FAILURE"
          ELSE /\ l_call'.ret = "SUCCESS"
               /\ l_call'.data = Payloads[Addressed(l_call')]]_vars

\* whether no element of the chain compares equal to cmp_data
NoMatch(cmp_data) ==
    \A i \in 1..Len(Chain) : comparator(list, Payloads[i], cmp_data) # 0

FindOps == {"list_read_find", "list_edit_find", "list_get_find"}

\* C21: list_read_find, list_edit_find and list_get_find with a key that no
\* element equals under the comparator return FAILURE and leave the elements,
\* their order, the count and the position of every iterator as they were.
C21_NotFoundChangesNothing ==
    [][(/\ undef = "none"
        /\ list.live
        /\ l_call'.op \in FindOps
        /\ NoMatch(l_call'.arg))
       => (/\ l_call'.ret = "FAILURE"
           /\ undef' = "none"
           /\ heap' = heap
           /\ list' = list
           /\ iters' = iters)]_vars

\* a search that found nothing in a list of two elements or more, one of them
\* the position of an iterator
C21_Witness ==
    /\ undef = "none"
    /\ l_call.op \in FindOps
    /\ l_call.ret = "FAILURE"
    /\ Len(Chain) >= 2
    /\ NoMatch(l_call.arg)
    /\ \E it \in IterIds : iters[it].live /\ IndexIn(Chain, iters[it].elem) # 0

AllocOps ==
    {"list_init", "list_add_first", "list_add_last", "list_add_idx",
     "list_add_find", "iterator_insert", "iterator_init"}

C27_GetLeavesFollowingNode ==
    [][\A it \in IterIds :
        LET k == IndexIn(Chain, iters[it].elem)
        IN /\ (/\ undef = "none"
               /\ l_call'.op = "iterator_get"
               /\ l_call'.it = it
               /\ 0 < k
               /\ k < Len(Chain))
              => (/\ l_call'.ret = "SUCCESS"
                  /\ l_call'.data = Payloads[k]
                  /\ undef' = "none"
                  /\ iters'[it].elem = Chain[k + 1]
                  /\ Chain' = Without(Chain, k)
                  /\ list'.nb_elements = list.nb_elements - 1)
           /\ (/\ undef = "none"
               /\ l_call'.op = "iterator_get"
               /\ l_call'.it = it
               /\ k = 1
               /\ Len(Chain) = 1)
              => (/\ l_call'.ret = "SUCCESS"
                  /\ undef' = "none"
                  /\ list'.first = NULL
                  /\ list'.last = NULL
                  /\ list'.nb_elements = 0
                  /\ iters'[it].elem = NULL)
           /\ (/\ undef = "none"
               /\ l_call'.op = "iterator_read"
               /\ l_call'.it = it
               /\ iters[it].live
               /\ iters[it].elem = NULL)
              => (/\ l_call'.ret = "FAILURE"
                  /\ iters'[it].elem = NULL)]_vars

\* iterator_get has removed a node that was not the tail of a list of three:
\* the iterator is on a node of the two that remain
C27_Witness ==
    /\ undef = "none"
    /\ l_call.op = "iterator_get"
    /\ l_call.ret = "SUCCESS"
    /\ Len(Chain) = 2
    /\ list.nb_elements = 2
    /\ iters[l_call.it].live
    /\ IndexIn(Chain, iters[l_call.it].elem) # 0

\* the iterators created by iterator_init and not yet given to iterator_remove
Created == {it \in IterIds : iters[it].live}

FirstMatch(cmp_data) ==
    IF NoMatch(cmp_data)
    THEN 0
    ELSE CHOOSE i \in 1..Len(Chain) :
            /\ comparator(list, Payloads[i], cmp_data) = 0
            /\ \A j \in 1..(i - 1) : comparator(list, Payloads[j], cmp_data) # 0

\* C29: iterator_find scans from the first element whatever the iterator's
\* position is; on success the iterator is on the first element that compares
\* equal to the key, and when none does it returns FAILURE and the position is
\* unchanged.  list_read_find, list_edit_find and list_get_find read, edit and
\* remove that same first match.
C29_FindTakesFirstMatch ==
    [][(/\ undef = "none"
        /\ list.live
        /\ l_call'.op \in FindOps \cup {"iterator_find"})
       => LET k == FirstMatch(l_call'.arg)
          IN IF k = 0
             THEN /\ l_call'.ret = "FAILURE"
                  /\ iters' = iters
             ELSE /\ l_call'.ret = "SUCCESS"
                  /\ undef' = "none"
                  /\ l_call'.op = "iterator_find" =>
                        /\ iters'[l_call'.it].elem = Chain[k]
                        /\ Chain' = Chain
                        /\ Payloads' = Payloads
                        /\ list' = list
                  /\ l_call'.op = "list_read_find" =>
                        /\ l_call'.data = Payloads[k]
                        /\ heap' = heap
                        /\ list' = list
                  /\ l_call'.op = "list_edit_find" =>
                        /\ Chain' = Chain
                        /\ \A i \in 1..Len(Chain) : i # k => Payloads'[i] = Payloads[i]
                        /\ list' = list
                  /\ l_call'.op = "list_get_find" =>
                        /\ l_call'.data = Payloads[k]
                        /\ Chain' = Without(Chain, k)]_vars

\* iterator_find has put the iterator on the second element, the first of two
\* that compare equal to the key
C29_Witness ==
    /\ undef = "none"
    /\ l_call.op = "iterator_find"
    /\ l_call.ret = "SUCCESS"
    /\ Len(Chain) = 3
    /\ FirstMatch(l_call.arg) = 2
    /\ comparator(list, Payloads[3], l_call.arg) = 0
    /\ iters[l_call.it].elem = Chain[2]

\* C30: a successful iterator_insert(data, after) of an iterator on node p
\* leaves the iterator on p, adds 1 to the count and puts the new element
\* right after p (after) or right before p (not after), the other elements in
\* the order they had; first or last becomes the new node when it is put at
\* that end.
C30_InsertNextToPosition ==
    [][\A it \in IterIds :
        LET k == IndexIn(Chain, iters[it].elem)
            j == IF l_call'.after THEN k + 1 ELSE k
        IN (/\ undef = "none"
            /\ l_call'.op = "iterator_insert"
            /\ l_call'.it = it
            /\ l_call'.ret = "SUCCESS"
            /\ k # 0)
           => (/\ undef' = "none"
               /\ iters'[it].elem = iters[it].elem
               /\ list'.nb_elements = list.nb_elements + 1
               /\ Len(Chain') = Len(Chain) + 1
               /\ Without(Chain', j) = Chain
               /\ Payloads'[j] = l_call'.arg
               /\ Without(Payloads', j) = Payloads
               /\ Chain'[j] \notin {Chain[i] : i \in 1..Len(Chain)}
               /\ list'.first = Chain'[1]
               /\ list'.last = Chain'[Len(Chain')]
               /\ Len(BackChain') = Len(Chain')
               /\ \A i \in 1..Len(Chain') :
                     BackChain'[i] = Chain'[Len(Chain') + 1 - i])]_vars

\* an element was put between two others, right after the iterator's node
C30_Witness ==
    /\ undef = "none"
    /\ l_call.op = "iterator_insert"
    /\ l_call.ret = "SUCCESS"
    /\ l_call.after
    /\ Len(Chain) = 3
    /\ iters[l_call.it].elem = Chain[1]
    /\ Payloads[2] = l_call.arg
    /\ Payloads[3] # l_call.arg

\* C31: a successful list_add_idx(data, idx) with idx <= nb_elements makes data
\* the element at index idx, which list_read_idx(idx) then returns, moves the
\* elements that were at idx and beyond one place toward the tail, keeps the
\* order of the elements it found and adds 1 to the count.
C31_AddIdxPutsAtIndex ==
    [][(/\ undef = "none"
        /\ list.live
        /\ l_call'.op = "list_add_idx"
        /\ l_call'.ret = "SUCCESS"
        /\ l_call'.idx <= list.nb_elements)
       => LET j == l_call'.idx + 1
              after == [heap |-> heap', list |-> list', iters |-> iters']
          IN /\ undef' = "none"
             /\ list'.nb_elements = list.nb_elements + 1
             /\ Len(Chain') = Len(Chain) + 1
             /\ Payloads'[j] = l_call'.arg
             /\ Without(Chain', j) = Chain
             /\ Without(Payloads', j) = Payloads
             /\ list_read_idx(after, l_call'.idx, TRUE).ret = "SUCCESS"
             /\ list_read_idx(after, l_call'.idx, TRUE).data = l_call'.arg]_vars

\* list_add_idx has put an element at index 1, between two elements that
\* differ from it
C31_Witness ==
    /\ undef = "none"
    /\ l_call.op = "list_add_idx"
    /\ l_call.ret = "SUCCESS"
    /\ l_call.idx = 1
    /\ Len(Chain) = 3
    /\ Payloads[2] = l_call.arg
    /\ Payloads[1] # l_call.arg
    /\ Payloads[3] # l_call.arg

GetOps ==
    {"list_get_first", "list_get_last", "list_get_idx", "list_get_find",
     "iterator_get"}

\* C32: every successful list_get_first, list_get_last, list_get_idx,
\* list_get_find and iterator_get returns the payload of the element it
\* addresses, takes exactly 1 from the count and leaves the other elements in
\* the order they had.
C32_GetRemovesAddressedElement ==
    [][(/\ undef = "none"
        /\ list.live
        /\ l_call'.op \in GetOps
        /\ l_call'.ret = "SUCCESS")
       => LET k == Addressed(l_call')
          IN /\ k # 0
             /\ l_call'.data = Payloads[k]
             /\ list'.nb_elements = list.nb_elements - 1
             /\ Chain' = Without(Chain, k)
             /\ Payloads' = Without(Payloads, k)]_vars

\* C33: for each discipline, top_next on a non-empty list returns the payload
\* that the next pop would return, and top_next and back change nothing:
\* elements, order, count and the position of every iterator are as before.
C33_TopNextIsNextPop ==
    [][(/\ undef = "none"
        /\ list.live
        /\ l_call'.op \in {"top_next", "back"})
       => (/\ heap' = heap
           /\ list' = list
           /\ iters' = iters
           /\ undef' = "none"
           /\ (l_call'.op = "top_next" /\ Chain # << >>)
                 => LET after == [heap |-> heap', list |-> list', iters |-> iters']
                    IN /\ l_call'.ret = "SUCCESS"
                       /\ adapter_pop(after).ret = "SUCCESS"
                       /\ l_call'.data = adapter_pop(after).data)]_vars

\* top_next has read a list whose two ends hold different payloads, with an
\* iterator on one of its nodes
C33_Witness ==
    /\ undef = "none"
    /\ l_call.op = "top_next"
    /\ l_call.ret = "SUCCESS"
    /\ Len(Chain) >= 2
    /\ Payloads[1] # Payloads[Len(Chain)]
    /\ \E it \in IterIds : iters[it].live /\ IndexIn(Chain, iters[it].elem) # 0

\* C34: whatever removals and iterator operations have run, the position of
\* every live user iterator is absent or a node linked in the list: no
\* iterator refers to a released node.
C34_NoIteratorOnReleasedNode ==
    (undef = "none" /\ list.live)
        => \A it \in IterIds :
              iters[it].live
                 => \/ iters[it].elem = NULL
                    \/ /\ heap[iters[it].elem].alloc
                       /\ IndexIn(Chain, iters[it].elem) # 0

\* C35: iterator_insert through an iterator whose position is absent never
\* reads an absent node.  On an empty list it inserts the payload as the only
\* element (or fails for lack of memory); on a non-empty list it fails and
\* changes nothing, or it inserts at one end, the rest keeping its order and
\* the count growing by one.
C35_InsertAtAbsentPosition ==
    [][(/\ undef = "none"
        /\ list.live
        /\ l_call'.op = "iterator_insert"
        /\ iters[l_call'.it].live
        /\ iters[l_call'.it].elem = NULL)
       => /\ undef' = "none"
          /\ IF l_call'.ret = "SUCCESS"
             THEN /\ list'.nb_elements = list.nb_elements + 1
                  /\ Len(Chain') = Len(Chain) + 1
                  /\ \/ Payloads' = <<l_call'.arg>> \o Payloads
                     \/ Payloads' = Append(Payloads, l_call'.arg)
                  /\ \/ Without(Chain', 1) = Chain
                     \/ Without(Chain', Len(Chain')) = Chain
             ELSE /\ l_call'.ret = "FAILURE"
                  /\ Chain' = Chain
                  /\ Payloads' = Payloads
                  /\ list' = list
          /\ (Chain = << >> /\ ~l_call'.nomem) => l_call'.ret = "SUCCESS"]_vars

\* the number of nodes that are allocated
NodesAllocated == Cardinality({n \in NodeIds : heap[n].alloc})

InsertOps ==
    {"list_add_first", "list_add_last", "list_add_idx", "list_add_find",
     "iterator_insert"}

\* C36: every operation on a live list leaves nb_elements equal to the number
\* of nodes reachable from first and changes the number of allocated nodes by
\* as much as it changes that number: a successful insert allocates exactly one
\* node and a successful remove-and-return releases exactly one.
C36_NodesConserved ==
    [][(/\ undef = "none"
        /\ list.live
        /\ list'.live)
       => (/\ list'.nb_elements = Len(Chain')
           /\ NodesAllocated' - NodesAllocated = Len(Chain') - Len(Chain)
           /\ (l_call'.op \in InsertOps /\ l_call'.ret = "SUCCESS")
                 => NodesAllocated' = NodesAllocated + 1
           /\ (l_call'.op \in GetOps /\ l_call'.ret = "SUCCESS")
                 => NodesAllocated' = NodesAllocated - 1)]_vars

\* whether the payloads of a sequence never decrease from head to tail
NonDecreasing(q) == \A i \in 1..(Len(q) - 1) : q[i] <= q[i + 1]

\* C37: the result of the default comparator is negative, zero or positive
\* exactly when its first payload is less than, equal to or greater than the
\* second, for all payload values of the width of a word; and a sorted insert
\* under the default comparator into a non-decreasing list leaves the list
\* non-decreasing.
C37_DefaultComparatorTotalOrder ==
    [][/\ (undef = "none" /\ l_call'.op = "default_comparator")
          => (/\ (l_call'.data < 0) <=> (l_call'.arg < l_call'.from)
              /\ (l_call'.data = 0) <=> (l_call'.arg = l_call'.from)
              /\ (l_call'.data > 0) <=> (l_call'.arg > l_call'.from))
       /\ (/\ undef = "none"
           /\ list.live
           /\ list.comparator = "default"
           /\ NonDecreasing(Payloads)
           /\ l_call'.op = "list_add_find"
           /\ l_call'.ret = "SUCCESS")
          => NonDecreasing(Payloads')]_vars

(***************************************************************************)
(* Ring buffer claims                                                      *)
(***************************************************************************)

\* bytes accepted by successful writes and not yet delivered by a successful read
Unread == accepted - Len(delivered)

\* C4: the bytes delivered by successful reads, concatenated, are a prefix of the
\* bytes accepted by successful writes, concatenated (the i-th byte delivered is
\* the i-th byte written; no byte that was never written is delivered).
C4_DeliveredIsPrefixOfAccepted ==
    /\ Len(delivered) <= accepted
    /\ \A i \in 1..Len(delivered) : delivered[i] = i

\* C5: round trip. In a state with no unread data a write of k <= capacity
\* elements succeeds, and the read of k elements that follows it succeeds and
\* returns the bytes written.
C5_RoundTrip ==
    [][/\ (/\ cb.live
           /\ Unread = 0
           /\ cb_call'.op = "write"
           /\ cb_call'.n <= cb.nb_elem)
          => cb_call'.ret = "SUCCESS"
       /\ (/\ cb.live
           /\ cb_call.op = "write"
           /\ cb_call.ret = "SUCCESS"
           /\ cb_call.n <= cb.nb_elem
           /\ accepted - Len(cb_call.data) = Len(delivered)
           /\ cb_call'.op = "read"
           /\ cb_call'.n = cb_call.n)
          => (cb_call'.ret = "SUCCESS" /\ cb_call'.data = cb_call.data)]_vars

\* C6: a write whose byte count exceeds the free space, or that is issued while
\* the buffer is full, fails and changes nothing of the buffer; the unread bytes
\* never exceed the capacity.
C6_CapacityNeverExceeded ==
    /\ [][(/\ cb.live
           /\ cb_call'.op = "write"
           /\ \/ cb_call'.n * cb.elem_size > cb.size - Unread
              \/ Unread = cb.size)
          => (cb_call'.ret = "FAILURE" /\ cb' = cb)]_vars
    /\ [](cb.live => Unread <= cb.size)

\* C12: in every state both cursors, as offsets from the start of the backing
\* region, are less than the capacity in bytes: a cursor that reaches the end of
\* the region is wrapped to offset 0.
C12_CursorsBelowCapacity ==
    cb.live => (cb.read_ptr < cb.size /\ cb.write_ptr < cb.size)

\* C13: in every state the full flag is set if and only if the unread bytes
\* (accepted by successful writes and not yet delivered) equal the capacity.
C13_FullIffUnreadIsCapacity ==
    cb.live => (cb.full <=> Unread = cb.size)

\* C14: circular_buffer_init succeeds only when neither argument is 0 and the
\* exact product nb_elements * element_size fits the word, and then the stored
\* size is that product.  (A live descriptor holds the arguments of the
\* successful call that made it.)
C14_InitRejectsOverflow ==
    cb.live => /\ cb.nb_elem # 0
               /\ cb.elem_size # 0
               /\ cb.nb_elem * cb.elem_size < Modulus
               /\ cb.size = cb.nb_elem * cb.elem_size

\* C23: a write whose exact byte count nb_elements * elem_size exceeds the free
\* space fails, also when that product does not fit the word and wraps to a
\* small number; no successful write copies more bytes than are free.
C23_WriteNeverExceedsFree ==
    [][(/\ cb.live
        /\ cb_call'.op = "write")
       => (/\ cb_call'.n * cb.elem_size > cb.size - Unread
                 => cb_call'.ret = "FAILURE"
           /\ cb_call'.ret = "SUCCESS"
                 => elements_to_size(cb, cb_call'.n) <= cb.size - Unread)]_vars

\* the number of elements circular_buffer_size reports for desc
Reported(desc) == size_to_elements(desc, get_unread_size(desc))

\* C24: every successful write of n elements increases the number that
\* circular_buffer_size reports by exactly n, for n = 0 too.
C24_WriteAddsToReportedSize ==
    [][(/\ cb.live
        /\ cb_call'.op = "write"
        /\ cb_call'.ret = "SUCCESS")
       => Reported(cb') = Reported(cb) + cb_call'.n]_vars

\* C25: every successful read of n elements decreases the number that
\* circular_buffer_size reports by exactly n; a read of 0 elements from a full
\* buffer discards nothing.
C25_ReadTakesFromReportedSize ==
    [][(/\ cb.live
        /\ cb_call'.op = "read"
        /\ cb_call'.ret = "SUCCESS")
       => Reported(cb') = Reported(cb) - cb_call'.n]_vars

\* C26: a read that asks for more bytes than are unread returns FAILURE, leaves
\* both cursors, the full flag and the backing region as they were and writes
\* nothing to the caller's buffer.
C26_ReadBeyondUnreadFails ==
    [][(/\ cb.live
        /\ cb_call'.op = "read"
        /\ cb_call'.n * cb.elem_size > Unread)
       => (/\ cb_call'.ret = "FAILURE"
           /\ cb' = cb
           /\ cb_call'.data = << >>)]_vars

=============================================================================
